---- MODULE Spec2Model ----
(***************************************************************************)
(* DFAEditor: the interaction state machine of src/components/DFAEditor.tsx *)
(* over the node/edge collections of the DataProvider.  Every React event   *)
(* handler is one action; an action covers everything that runs for one DOM *)
(* event (handlers chained by bubbling included).                           *)
(***************************************************************************)
EXTENDS Integers, Sequences, FiniteSets, TLC

\* ---------------------------------------------------------------- bounds
\* At most MaxNodes nodes and MaxEdges edges are created in a session.
MaxNodes == 2
MaxEdges == 2
\* A session is followed for at most MaxGestures input events.
MaxGestures == 7

\* ---------------------------------------------------------------- values
\* null of a `string | null` state field.
NULL == "null"
\* null of connectingPreview, and an absent (undefined) loopAngle.
NoPoint == <<>>
NoAngle == <<>>
\* localStorage.getItem returning null: nothing was saved yet.
NoData == <<>>
\* the empty string '' of generatedLatex and of a path: a text is kept as the
\* sequence of the strings it was put together from
NoText == <<>>

\* Pointer positions (x, y) an event can carry, in surface coordinates.
Points == {<<0, 0>>, <<1, 0>>, <<1, 1>>}
\* Texts typed into a label input.
Labels == {"", "x"}
\* e.key of a keydown event; "a" stands for every key the handler ignores.
Keys == {"Enter", "Escape", "Delete", "a"}

\* `n_${k}` and `e_${k}`
NodeId(k) == "n_" \o ToString(k)
EdgeId(k) == "e_" \o ToString(k)

VARIABLES
    nodes,              \* DataProvider: useState<Node[]>
    edges,              \* DataProvider: useState<Edge[]>
    dragging,           \* spec: dragTarget
    connecting,         \* spec: connectFrom
    connectingPreview,  \* spec: connectPreviewPoint
    selectedNode,
    selectedEdge,
    draggingLoopEdge,   \* spec: loopDragTarget
    editingNode,
    editingEdge,
    tempLabel,          \* spec: draftLabel
    nextNodeId,         \* DFAEditor: useRef(0)
    nextEdgeId,         \* DFAEditor: useRef(0)
    storage,            \* localStorage item 'dfaData'
    provNextNodeId,     \* DataProvider: useRef(0), re-seeded by a load
    provNextEdgeId,     \* DataProvider: useRef(0), re-seeded by a load
    context,            \* React.useContext(DataContext) gives a value
    edgePaths,          \* DFAEditor render: getEdgePath(edge) of every edge drawn
    isOpen,             \* LatexExport prop: the export dialog is shown
    generatedLatex,     \* LatexExport: useState('')
    toggleInitial,      \* LatexExport: useState(true)
    targetMaxWidth,     \* LatexExport: useState(12)
    targetMaxHeight,    \* LatexExport: useState(8)
    nodeDistance,       \* LatexExport: useState(2)
    shortenArrows,      \* LatexExport: useState(1)
    usedNodeIds,        \* history: every id a node of this session has had
    usedEdgeIds,        \* history: every id an edge of this session has had
    gestures            \* number of input events handled so far

counters == <<nextNodeId, nextEdgeId>>
transient == <<dragging, connecting, connectingPreview, selectedNode, selectedEdge,
               draggingLoopEdge, editingNode, editingEdge, tempLabel>>
provider == <<storage, provNextNodeId, provNextEdgeId, context>>
history == <<usedNodeIds, usedEdgeIds>>
\* the parameters of the export dialog
parameters == <<toggleInitial, targetMaxWidth, targetMaxHeight, nodeDistance,
                shortenArrows>>
\* what is shown: the geometry last drawn and the export dialog
view == <<edgePaths, isOpen, generatedLatex, parameters>>
vars == <<nodes, edges, dragging, connecting, connectingPreview, selectedNode,
          selectedEdge, draggingLoopEdge, editingNode, editingEdge, tempLabel,
          nextNodeId, nextEdgeId, storage, provNextNodeId, provNextEdgeId, context,
          edgePaths, isOpen, generatedLatex, toggleInitial, targetMaxWidth,
          targetMaxHeight, nodeDistance, shortenArrows,
          usedNodeIds, usedEdgeIds, gestures>>

\* ---------------------------------------------------------------- helpers
\* ids of a collection, in collection order
Ids(s) == [i \in DOMAIN s |-> s[i].id]
IdSet(s) == {s[i].id : i \in DOMAIN s}

\* Array.prototype.find(x => x.id === id): found or not, and the first match
Has(s, id) == \E i \in DOMAIN s : s[i].id = id
Find(s, id) == s[CHOOSE i \in DOMAIN s :
                    s[i].id = id /\ \A j \in 1 .. (i - 1) : s[j].id # id]

\* a component that would render without the context
DFAEditorRendersBare == TRUE

\* DFAEditor: if (!context) throw new Error(...): it renders, and has
\* handlers, only under a provider
DFAEditorRenders == context

\* LatexExport: if (!context) throw new Error(...)
LatexExportRenders == context

\* one input event is consumed, by handlers of a rendered editor
Tick == /\ DFAEditorRenders
        /\ gestures < MaxGestures
        /\ gestures' = gestures + 1

\* ---------------------------------------------------------------- Init
Init ==
    /\ nodes = <<>>
    /\ edges = <<>>
    /\ dragging = NULL
    /\ connecting = NULL
    /\ connectingPreview = NoPoint
    /\ selectedNode = NULL
    /\ selectedEdge = NULL
    /\ draggingLoopEdge = NULL
    /\ editingNode = NULL
    /\ editingEdge = NULL
    /\ tempLabel = ""
    /\ nextNodeId = 0
    /\ nextEdgeId = 0
    /\ storage = NoData
    /\ provNextNodeId = 0
    /\ provNextEdgeId = 0
    /\ context = TRUE
    /\ edgePaths = <<>>
    /\ isOpen = FALSE
    /\ generatedLatex = NoText
    /\ toggleInitial = TRUE
    /\ targetMaxWidth = 12
    /\ targetMaxHeight = 8
    /\ nodeDistance = 2
    /\ shortenArrows = 1
    /\ usedNodeIds = {}
    /\ usedEdgeIds = {}
    /\ gestures = 0

\* ---------------------------------------------------------------- handlers
\* a Node literal that takes the { x: 0, y: 0 } of a missing svg for the pointer
NewNodeAtOrigin(k, x, y) ==
    [id |-> NodeId(k), x |-> 0, y |-> 0, label |-> "", accept |-> FALSE]

\* the Node literal of handleDoubleClick
NewNode(k, x, y) == [id |-> NodeId(k), x |-> x, y |-> y, label |-> "", accept |-> FALSE]

\* a counter that is read and never advanced
AdvanceDropped(counter) == counter
\* the ++ of nextNodeId.current++ and nextEdgeId.current++
Advance(counter) == counter + 1

\* a creation that edits the id the counter holds after the ++
handleDoubleClickEditingNext(x, y) ==
    /\ Tick
    /\ UNCHANGED view
    /\ UNCHANGED provider
    /\ nextNodeId < MaxNodes
    /\ nextNodeId' = Advance(nextNodeId)
    /\ nodes' = Append(nodes, NewNode(nextNodeId, x, y))
    /\ editingNode' = NodeId(Advance(nextNodeId))
    /\ tempLabel' = ""
    /\ usedNodeIds' = usedNodeIds \cup {NodeId(nextNodeId)}
    /\ UNCHANGED usedEdgeIds
    /\ UNCHANGED <<edges, dragging, connecting, connectingPreview, selectedNode,
                   selectedEdge, draggingLoopEdge, editingEdge, nextEdgeId>>

\* svg onDoubleClick: create a node at the pointer and edit its label
handleDoubleClick(x, y) ==
    /\ Tick
    /\ UNCHANGED view
    /\ UNCHANGED provider
    /\ nextNodeId < MaxNodes
    /\ nextNodeId' = Advance(nextNodeId)
    /\ nodes' = Append(nodes, NewNode(nextNodeId, x, y))
    /\ editingNode' = NodeId(nextNodeId)
    /\ tempLabel' = ""
    /\ usedNodeIds' = usedNodeIds \cup {NodeId(nextNodeId)}
    /\ UNCHANGED usedEdgeIds
    /\ UNCHANGED <<edges, dragging, connecting, connectingPreview, selectedNode,
                   selectedEdge, draggingLoopEdge, editingEdge, nextEdgeId>>

\* a press that starts the drag before it looks at the shift key
handleNodeMouseDownDragging(nodeId, shiftKey, x, y) ==
    /\ Tick
    /\ UNCHANGED view
    /\ UNCHANGED provider
    /\ UNCHANGED history
    /\ Has(nodes, nodeId)
    /\ selectedNode' = nodeId
    /\ selectedEdge' = NULL
    /\ dragging' = nodeId
    /\ IF shiftKey
         THEN /\ connecting' = nodeId
              /\ connectingPreview' = <<x, y>>
         ELSE UNCHANGED <<connecting, connectingPreview>>
    /\ UNCHANGED <<nodes, edges, draggingLoopEdge, editingNode, editingEdge, tempLabel,
                   nextNodeId, nextEdgeId>>

\* ---- circle onMouseDown
\* press on a node: select it; with shift start connecting, otherwise start dragging
handleNodeMouseDown(nodeId, shiftKey, x, y) ==
    /\ Tick
    /\ UNCHANGED view
    /\ UNCHANGED provider
    /\ UNCHANGED history
    /\ Has(nodes, nodeId)
    /\ selectedNode' = nodeId
    /\ selectedEdge' = NULL
    /\ IF shiftKey
         THEN /\ connecting' = nodeId
              /\ connectingPreview' = <<x, y>>
              /\ UNCHANGED dragging
         ELSE /\ dragging' = nodeId
              /\ UNCHANGED <<connecting, connectingPreview>>
    /\ UNCHANGED <<nodes, edges, draggingLoopEdge, editingNode, editingEdge, tempLabel,
                   nextNodeId, nextEdgeId>>

\* ---- getEdgePath, as far as hit-testing needs it
\* both endpoints are found (otherwise the path is '' and isLoop is undefined)
EndpointsExist(ns, e) == Has(ns, e.from) /\ Has(ns, e.to)
\* the isLoop flag getEdgePath returns
IsLoop(ns, e) == EndpointsExist(ns, e) /\ e.from = e.to
\* the stroke has a geometry the pointer can hit: a loop, or a segment of
\* non-zero length (distance 0 makes every coordinate of the path NaN)
HasStroke(ns, e) ==
    /\ EndpointsExist(ns, e)
    /\ \/ e.from = e.to
       \/ Find(ns, e.from).x # Find(ns, e.to).x
       \/ Find(ns, e.from).y # Find(ns, e.to).y

\* ---- loop path / loop arrowhead onMouseDown
handleLoopEdgeMouseDown(edgeId) ==
    /\ Tick
    /\ UNCHANGED view
    /\ UNCHANGED provider
    /\ UNCHANGED history
    /\ \E i \in DOMAIN edges : edges[i].id = edgeId /\ IsLoop(nodes, edges[i])
    /\ draggingLoopEdge' = edgeId
    /\ UNCHANGED <<nodes, edges, dragging, connecting, connectingPreview, selectedNode,
                   selectedEdge, editingNode, editingEdge, tempLabel, nextNodeId,
                   nextEdgeId>>

\* ---- Math.atan2(dy, dx) * (180 / Math.PI), to the nearest degree
\* first-quadrant angle of a slope a / b with a, b > 0
BaseDeg(a, b) ==
    CASE a = b -> 45
      [] 2 * a = b -> 27
      [] a = 2 * b -> 63
      [] 3 * a = b -> 18
      [] a = 3 * b -> 72
      [] 3 * a = 2 * b -> 34
      [] 2 * a = 3 * b -> 56

Atan2Deg(dy, dx) ==
    CASE dy = 0 /\ dx >= 0 -> 0
      [] dy = 0 /\ dx < 0 -> 180
      [] dx = 0 /\ dy > 0 -> 90
      [] dx = 0 /\ dy < 0 -> -90
      [] dx > 0 /\ dy > 0 -> BaseDeg(dy, dx)
      [] dx > 0 /\ dy < 0 -> -BaseDeg(-dy, dx)
      [] dx < 0 /\ dy > 0 -> 180 - BaseDeg(dy, -dx)
      [] dx < 0 /\ dy < 0 -> BaseDeg(-dy, -dx) - 180

\* prev.map(node => node.id === dragging ? { ...node, x, y } : node)
MoveNode(ns, id, x, y) ==
    [i \in DOMAIN ns |->
        IF ns[i].id = id THEN [ns[i] EXCEPT !.x = x, !.y = y] ELSE ns[i]]

\* prev.map(ed => ed.id === draggingLoopEdge ? { ...ed, loopAngle: angle } : ed)
SetLoopAngle(es, id, angle) ==
    [i \in DOMAIN es |->
        IF es[i].id = id THEN [es[i] EXCEPT !.loopAngle = <<angle>>] ELSE es[i]]

\* handleMouseMove: drag the node, else move the connection preview
handleMouseMove(x, y) ==
    IF dragging # NULL
      THEN /\ nodes' = MoveNode(nodes, dragging, x, y)
           /\ UNCHANGED connectingPreview
      ELSE IF connecting # NULL /\ connectingPreview # NoPoint
             THEN /\ connectingPreview' = <<x, y>>
                  /\ UNCHANGED nodes
             ELSE UNCHANGED <<nodes, connectingPreview>>

\* handleLoopEdgeMouseMove: turn the dragged loop towards the pointer
handleLoopEdgeMouseMove(x, y) ==
    IF /\ draggingLoopEdge # NULL
       /\ Has(edges, draggingLoopEdge)
       /\ Has(nodes, Find(edges, draggingLoopEdge).from)
      THEN LET fromNode == Find(nodes, Find(edges, draggingLoopEdge).from)
               angle == Atan2Deg(y - fromNode.y, x - fromNode.x)
           IN  edges' = SetLoopAngle(edges, draggingLoopEdge, angle)
      ELSE UNCHANGED edges

\* ---- svg onMouseMove: both move handlers run on the same event
svgMouseMove(x, y) ==
    /\ Tick
    /\ UNCHANGED view
    /\ UNCHANGED provider
    /\ UNCHANGED history
    /\ handleMouseMove(x, y)
    /\ handleLoopEdgeMouseMove(x, y)
    /\ UNCHANGED <<dragging, connecting, selectedNode, selectedEdge, draggingLoopEdge,
                   editingNode, editingEdge, tempLabel, nextNodeId, nextEdgeId>>

\* handleMouseUp and handleLoopEdgeMouseUp
handleMouseUp == dragging' = NULL
handleLoopEdgeMouseUp == draggingLoopEdge' = NULL

\* ---- svg onMouseUp: a release that reaches the svg (not stopped by a node)
svgMouseUp ==
    /\ Tick
    /\ UNCHANGED view
    /\ UNCHANGED provider
    /\ UNCHANGED history
    /\ handleMouseUp
    /\ handleLoopEdgeMouseUp
    /\ UNCHANGED <<nodes, edges, connecting, connectingPreview, selectedNode,
                   selectedEdge, editingNode, editingEdge, tempLabel, nextNodeId,
                   nextEdgeId>>

\* a surface click that forgets setConnectingPreview(null)
handleSVGClickKeepingPreview(onSurface) ==
    /\ Tick
    /\ UNCHANGED view
    /\ UNCHANGED provider
    /\ UNCHANGED history
    /\ IF onSurface
         THEN /\ selectedNode' = NULL
              /\ selectedEdge' = NULL
              /\ IF connecting # NULL
                   THEN connecting' = NULL /\ UNCHANGED connectingPreview
                   ELSE UNCHANGED <<connecting, connectingPreview>>
         ELSE UNCHANGED <<selectedNode, selectedEdge, connecting, connectingPreview>>
    /\ UNCHANGED <<nodes, edges, dragging, draggingLoopEdge, editingNode, editingEdge,
                   tempLabel, nextNodeId, nextEdgeId>>

\* ---- svg onClick; onSurface is e.target === svgRef.current
handleSVGClick(onSurface) ==
    /\ Tick
    /\ UNCHANGED view
    /\ UNCHANGED provider
    /\ UNCHANGED history
    /\ IF onSurface
         THEN /\ selectedNode' = NULL
              /\ selectedEdge' = NULL
              /\ IF connecting # NULL
                   THEN connecting' = NULL /\ connectingPreview' = NoPoint
                   ELSE UNCHANGED <<connecting, connectingPreview>>
         ELSE UNCHANGED <<selectedNode, selectedEdge, connecting, connectingPreview>>
    /\ UNCHANGED <<nodes, edges, dragging, draggingLoopEdge, editingNode, editingEdge,
                   tempLabel, nextNodeId, nextEdgeId>>

\* an Edge literal with the two ends exchanged
NewEdgeReversed(k, from, to) ==
    [id |-> EdgeId(k), from |-> to, to |-> from, label |-> "", loopAngle |-> NoAngle]

\* the Edge literals of handleNodeClick (no loopAngle property)
NewEdge(k, from, to) ==
    [id |-> EdgeId(k), from |-> from, to |-> to, label |-> "", loopAngle |-> NoAngle]

\* ---- circle onMouseUp (stops propagation: svg onMouseUp does not run)
handleNodeClick(nodeId) ==
    /\ Tick
    /\ UNCHANGED view
    /\ UNCHANGED provider
    /\ Has(nodes, nodeId)
    /\ IF connecting # NULL /\ connecting # nodeId
         THEN \* finish connecting to another node
              /\ nextEdgeId < MaxEdges
              /\ nextEdgeId' = Advance(nextEdgeId)
              /\ edges' = Append(edges, NewEdge(nextEdgeId, connecting, nodeId))
              /\ connecting' = NULL
              /\ connectingPreview' = NoPoint
              /\ editingEdge' = EdgeId(nextEdgeId)
              /\ tempLabel' = ""
              /\ UNCHANGED dragging
         ELSE IF connecting # NULL /\ connecting = nodeId
                THEN \* self-loop
                     /\ nextEdgeId < MaxEdges
                     /\ nextEdgeId' = Advance(nextEdgeId)
                     /\ edges' = Append(edges, NewEdge(nextEdgeId, nodeId, nodeId))
                     /\ connecting' = NULL
                     /\ connectingPreview' = NoPoint
                     /\ editingEdge' = EdgeId(nextEdgeId)
                     /\ tempLabel' = ""
                     /\ UNCHANGED dragging
                ELSE /\ handleMouseUp
                     /\ UNCHANGED <<edges, connecting, connectingPreview, editingEdge,
                                    tempLabel, nextEdgeId>>
    /\ usedEdgeIds' = usedEdgeIds \cup IdSet(edges')
    /\ UNCHANGED <<nodes, selectedNode, selectedEdge, draggingLoopEdge, editingNode,
                   nextNodeId, usedNodeIds>>

\* an edge click that leaves the node selection alone
handleEdgeClickKeepingNode(edgeId) ==
    /\ Tick
    /\ UNCHANGED view
    /\ UNCHANGED provider
    /\ UNCHANGED history
    /\ \E i \in DOMAIN edges : edges[i].id = edgeId /\ HasStroke(nodes, edges[i])
    /\ selectedEdge' = edgeId
    /\ UNCHANGED <<nodes, edges, dragging, connecting, connectingPreview, selectedNode,
                   draggingLoopEdge, editingNode, editingEdge, tempLabel, nextNodeId,
                   nextEdgeId>>

\* ---- edge path onClick
handleEdgeClick(edgeId) ==
    /\ Tick
    /\ UNCHANGED view
    /\ UNCHANGED provider
    /\ UNCHANGED history
    /\ \E i \in DOMAIN edges : edges[i].id = edgeId /\ HasStroke(nodes, edges[i])
    /\ selectedEdge' = edgeId
    /\ selectedNode' = NULL
    /\ UNCHANGED <<nodes, edges, dragging, connecting, connectingPreview,
                   draggingLoopEdge, editingNode, editingEdge, tempLabel, nextNodeId,
                   nextEdgeId>>

\* ---- circle onDoubleClick (stops propagation: no node is created)
handleNodeDoubleClick(nodeId) ==
    /\ Tick
    /\ UNCHANGED view
    /\ UNCHANGED provider
    /\ UNCHANGED history
    /\ Has(nodes, nodeId)
    /\ editingNode' = nodeId
    /\ tempLabel' = Find(nodes, nodeId).label
    /\ UNCHANGED <<nodes, edges, dragging, connecting, connectingPreview, selectedNode,
                   selectedEdge, draggingLoopEdge, editingEdge, nextNodeId, nextEdgeId>>

\* ---- edge path onDoubleClick
handleEdgeDoubleClick(edgeId) ==
    /\ Tick
    /\ UNCHANGED view
    /\ UNCHANGED provider
    /\ UNCHANGED history
    /\ \E i \in DOMAIN edges : edges[i].id = edgeId /\ HasStroke(nodes, edges[i])
    /\ editingEdge' = edgeId
    /\ tempLabel' = Find(edges, edgeId).label
    /\ UNCHANGED <<nodes, edges, dragging, connecting, connectingPreview, selectedNode,
                   selectedEdge, draggingLoopEdge, editingNode, nextNodeId, nextEdgeId>>

\* an updater that sets the flag instead of negating it
MarkAccept(ns, id) ==
    [i \in DOMAIN ns |->
        IF ns[i].id = id THEN [ns[i] EXCEPT !.accept = TRUE] ELSE ns[i]]

\* a toggle written with filter: it keeps the toggled node alone
ToggleAcceptAlone(ns, id) ==
    SelectSeq([i \in DOMAIN ns |->
                  IF ns[i].id = id THEN [ns[i] EXCEPT !.accept = ~ns[i].accept]
                                   ELSE ns[i]],
              LAMBDA n : n.id = id)

\* prev.map(node => node.id === nodeId ? { ...node, accept: !node.accept } : node)
ToggleAccept(ns, id) ==
    [i \in DOMAIN ns |->
        IF ns[i].id = id THEN [ns[i] EXCEPT !.accept = ~ns[i].accept] ELSE ns[i]]

\* ---- circle onContextMenu
handleNodeRightClick(nodeId) ==
    /\ Tick
    /\ UNCHANGED view
    /\ UNCHANGED provider
    /\ UNCHANGED history
    /\ Has(nodes, nodeId)
    /\ nodes' = ToggleAccept(nodes, nodeId)
    /\ UNCHANGED <<edges, dragging, connecting, connectingPreview, selectedNode,
                   selectedEdge, draggingLoopEdge, editingNode, editingEdge, tempLabel,
                   nextNodeId, nextEdgeId>>

\* a label input is mounted: editingNode (editingEdge) names a rendered node (edge)
InputMounted == Has(nodes, editingNode) \/ Has(edges, editingEdge)

\* ---- label input onChange
inputChange(text) ==
    /\ Tick
    /\ UNCHANGED view
    /\ UNCHANGED provider
    /\ UNCHANGED history
    /\ InputMounted
    /\ tempLabel' = text
    /\ UNCHANGED <<nodes, edges, dragging, connecting, connectingPreview, selectedNode,
                   selectedEdge, draggingLoopEdge, editingNode, editingEdge, nextNodeId,
                   nextEdgeId>>

\* a label updater without the id test
SetLabelEverywhere(s, id, label) == [i \in DOMAIN s |-> [s[i] EXCEPT !.label = label]]

\* prev.map(x => x.id === id ? { ...x, label: tempLabel } : x)
SetLabel(s, id, label) ==
    [i \in DOMAIN s |-> IF s[i].id = id THEN [s[i] EXCEPT !.label = label] ELSE s[i]]

\* a commit that leaves the draft text in place
saveLabelEditKeepingDraft ==
    /\ IF editingNode # NULL
         THEN /\ nodes' = SetLabel(nodes, editingNode, tempLabel)
              /\ editingNode' = NULL
         ELSE UNCHANGED <<nodes, editingNode>>
    /\ IF editingEdge # NULL
         THEN /\ edges' = SetLabel(edges, editingEdge, tempLabel)
              /\ editingEdge' = NULL
         ELSE UNCHANGED <<edges, editingEdge>>
    /\ UNCHANGED tempLabel

\* saveLabelEdit
saveLabelEdit ==
    /\ IF editingNode # NULL
         THEN /\ nodes' = SetLabel(nodes, editingNode, tempLabel)
              /\ editingNode' = NULL
         ELSE UNCHANGED <<nodes, editingNode>>
    /\ IF editingEdge # NULL
         THEN /\ edges' = SetLabel(edges, editingEdge, tempLabel)
              /\ editingEdge' = NULL
         ELSE UNCHANGED <<edges, editingEdge>>
    /\ tempLabel' = ""

\* ---- label input onBlur
inputBlur ==
    /\ Tick
    /\ UNCHANGED view
    /\ UNCHANGED provider
    /\ UNCHANGED history
    /\ InputMounted
    /\ saveLabelEdit
    /\ UNCHANGED <<dragging, connecting, connectingPreview, selectedNode, selectedEdge,
                   draggingLoopEdge, nextNodeId, nextEdgeId>>

\* an edge updater that ignores the `to` end
RemoveEdgesFrom(es, id) == SelectSeq(es, LAMBDA e : e.from # id)

\* prev.filter(n => n.id !== selectedNode)
RemoveNode(ns, id) == SelectSeq(ns, LAMBDA n : n.id # id)
\* prev.filter(e => e.from !== selectedNode && e.to !== selectedNode)
RemoveEdgesOf(es, id) == SelectSeq(es, LAMBDA e : e.from # id /\ e.to # id)
\* prev.filter(e => e.id !== selectedEdge)
RemoveEdge(es, id) == SelectSeq(es, LAMBDA e : e.id # id)

\* an Escape branch that keeps the draft by committing it
cancelOnEscapeCommitting ==
    /\ saveLabelEdit
    /\ connecting' = NULL
    /\ connectingPreview' = NoPoint
    /\ UNCHANGED <<selectedNode, selectedEdge>>

\* the Escape branch of handleKeyDown
cancelOnEscape ==
    /\ editingNode' = NULL
    /\ editingEdge' = NULL
    /\ connecting' = NULL
    /\ connectingPreview' = NoPoint
    /\ tempLabel' = ""
    /\ UNCHANGED <<nodes, edges, selectedNode, selectedEdge>>

\* a Delete branch that tests and removes the dragged node, not the selected one
deleteDragged ==
    /\ IF dragging # NULL
         THEN /\ nodes' = RemoveNode(nodes, dragging)
              /\ selectedNode' = NULL
         ELSE UNCHANGED <<nodes, selectedNode>>
    /\ LET afterNode == IF dragging # NULL
                          THEN RemoveEdgesOf(edges, dragging)
                          ELSE edges
       IN  IF selectedEdge # NULL
             THEN /\ edges' = RemoveEdge(afterNode, selectedEdge)
                  /\ selectedEdge' = NULL
             ELSE /\ edges' = afterNode
                  /\ UNCHANGED selectedEdge

\* a Delete branch that removes the selection and leaves it selected
deleteSelectionKept ==
    /\ IF selectedNode # NULL
         THEN nodes' = RemoveNode(nodes, selectedNode)
         ELSE UNCHANGED nodes
    /\ LET afterNode == IF selectedNode # NULL
                          THEN RemoveEdgesOf(edges, selectedNode)
                          ELSE edges
       IN  IF selectedEdge # NULL
             THEN edges' = RemoveEdge(afterNode, selectedEdge)
             ELSE edges' = afterNode
    /\ UNCHANGED <<selectedNode, selectedEdge>>

\* the Delete branch of handleKeyDown: both updaters of edges are applied in turn
deleteSelection ==
    /\ IF selectedNode # NULL
         THEN /\ nodes' = RemoveNode(nodes, selectedNode)
              /\ selectedNode' = NULL
         ELSE UNCHANGED <<nodes, selectedNode>>
    /\ LET afterNode == IF selectedNode # NULL
                          THEN RemoveEdgesOf(edges, selectedNode)
                          ELSE edges
       IN  IF selectedEdge # NULL
             THEN /\ edges' = RemoveEdge(afterNode, selectedEdge)
                  /\ selectedEdge' = NULL
             ELSE /\ edges' = afterNode
                  /\ UNCHANGED selectedEdge

\* ---- window keydown
handleKeyDown(key) ==
    /\ Tick
    /\ UNCHANGED view
    /\ UNCHANGED provider
    /\ UNCHANGED history
    /\ CASE key = "Enter" /\ (editingNode # NULL \/ editingEdge # NULL) ->
              /\ saveLabelEdit
              /\ UNCHANGED <<connecting, connectingPreview, selectedNode, selectedEdge>>
         [] key = "Escape" ->
              cancelOnEscape
         [] key = "Delete" ->
              /\ deleteSelection
              /\ UNCHANGED <<connecting, connectingPreview, editingNode, editingEdge,
                             tempLabel>>
         [] OTHER ->
              UNCHANGED <<nodes, edges, connecting, connectingPreview, selectedNode,
                          selectedEdge, editingNode, editingEdge, tempLabel>>
    /\ UNCHANGED <<dragging, draggingLoopEdge, nextNodeId, nextEdgeId>>

\* ---------------------------------------------------------------- persistence
\* ---- DataProvider with save/load (the provider that keeps the id counters)
\* JSON.stringify({ nodes, edges }) read back by JSON.parse: every field of a node
\* or edge is a finite number, a string or a boolean, and an absent loopAngle
\* stays absent
Stored(ns, es) == [nodes |-> ns, edges |-> es]

\* 💾 Save DFA
saveToLocalStorage ==
    /\ Tick
    /\ UNCHANGED view
    /\ storage' = Stored(nodes, edges)
    /\ UNCHANGED <<nodes, edges, transient, counters, provNextNodeId, provNextEdgeId,
                   context, history>>

\* parseInt(id.split('_').at(1)!) of an id `n_${k}` or `e_${k}`
ParseIdNumber(id) ==
    CHOOSE k \in 0 .. (MaxNodes + MaxEdges) : id = NodeId(k) \/ id = EdgeId(k)

\* const currId = loaded.at(-1)?.id; if (currId) { ref.current = parseInt(...) + 1 }
Reseed(current, loaded) ==
    IF loaded = <<>>
      THEN current
      ELSE ParseIdNumber(loaded[Len(loaded)].id) + 1

\* loadFromLocalStorage, run on a provider holding (ns, es) and counters (pn, pe)
loadFromLocalStorage(ns, es, pn, pe) ==
    IF storage # NoData
      THEN /\ nodes' = storage.nodes
           /\ edges' = storage.edges
           /\ provNextNodeId' = Reseed(pn, storage.nodes)
           /\ provNextEdgeId' = Reseed(pe, storage.edges)
      ELSE /\ nodes' = ns
           /\ edges' = es
           /\ provNextNodeId' = pn
           /\ provNextEdgeId' = pe

\* 📂 Load DFA: the editor stays mounted, its state and its own counters stay
loadButton ==
    /\ Tick
    /\ UNCHANGED view
    /\ loadFromLocalStorage(nodes, edges, provNextNodeId, provNextEdgeId)
    /\ usedNodeIds' = usedNodeIds \cup IdSet(nodes')
    /\ usedEdgeIds' = usedEdgeIds \cup IdSet(edges')
    /\ UNCHANGED <<transient, counters, storage, context>>

\* the page is opened again: a new session. Every useState and useRef starts
\* from its initial value and the provider's mount effect loads the stored graph
mount ==
    /\ Tick
    /\ UNCHANGED view
    /\ loadFromLocalStorage(<<>>, <<>>, 0, 0)
    /\ dragging' = NULL
    /\ connecting' = NULL
    /\ connectingPreview' = NoPoint
    /\ selectedNode' = NULL
    /\ selectedEdge' = NULL
    /\ draggingLoopEdge' = NULL
    /\ editingNode' = NULL
    /\ editingEdge' = NULL
    /\ tempLabel' = ""
    /\ nextNodeId' = 0
    /\ nextEdgeId' = 0
    /\ UNCHANGED context
    /\ usedNodeIds' = IdSet(nodes')
    /\ usedEdgeIds' = IdSet(edges')
    /\ UNCHANGED storage

\* ---------------------------------------------------------------- geometry
\* A coordinate computed by getEdgePath is a double. It is kept in fixed point:
\* <<v>> is the finite number v / Scale, <<>> is NaN.
Scale == 1000
NaN == <<>>
\* a whole number as a double
Whole(n) == <<n * Scale>>
\* a + b, a - b and a * k (k a whole number): NaN in, NaN out
Plus(a, b) == IF a = NaN \/ b = NaN THEN NaN ELSE <<a[1] + b[1]>>
Minus(a, b) == IF a = NaN \/ b = NaN THEN NaN ELSE <<a[1] - b[1]>>
Times(a, k) == IF a = NaN THEN NaN ELSE <<a[1] * k>>
\* a / 2
Halve(a) == IF a = NaN THEN NaN ELSE <<a[1] \div 2>>
\* a / b of whole numbers with b >= 0, where b is 0 only together with a
\* (dx / distance): 0 / 0 is NaN
Ratio(a, b) == IF b = 0 THEN NaN ELSE <<(a * Scale) \div b>>
\* Math.sqrt of a whole number that is a square
Sqrt(n) == CHOOSE r \in 0 .. n : r * r = n

\* Math.cos and Math.sin of an angle given in degrees, times Scale; the table
\* holds the quarter turns
Cos(deg) ==
    CASE deg % 360 = 0 -> Scale
      [] deg % 360 = 90 -> 0
      [] deg % 360 = 180 -> -Scale
      [] deg % 360 = 270 -> 0
Sin(deg) ==
    CASE deg % 360 = 0 -> 0
      [] deg % 360 = 90 -> Scale
      [] deg % 360 = 180 -> 0
      [] deg % 360 = 270 -> -Scale
\* Math.cos(0.7) and Math.sin(0.7), times Scale
Cos07 == 765
Sin07 == 644
\* Math.cos(angle + s * 0.7) and Math.sin(angle + s * 0.7) for s = 1 or -1,
\* times Scale
CosAside(deg, s) == (Cos(deg) * Cos07 - s * Sin(deg) * Sin07) \div Scale
SinAside(deg, s) == (Sin(deg) * Cos07 + s * Cos(deg) * Sin07) \div Scale

\* radius and labelRadius of the self-loop branch
radius == 150
labelRadius == 100

\* a default that points the loop down
LoopAngleOrDown(edge) == IF edge.loopAngle = NoAngle THEN 90 ELSE edge.loopAngle[1]

\* edge.loopAngle ?? -90
LoopAngleOr(edge) == IF edge.loopAngle = NoAngle THEN -90 ELSE edge.loopAngle[1]

\* the self-loop branch of getEdgePath; the path text is kept as its commands
\* and numbers: M start C cp1, cp2, start
LoopPath(fromNode, edge) ==
    LET angle == LoopAngleOr(edge)
        labelX == <<fromNode.x * Scale + Cos(angle) * labelRadius>>
        labelY == <<fromNode.y * Scale + Sin(angle) * labelRadius>>
        cp1x == <<fromNode.x * Scale + CosAside(angle, -1) * radius>>
        cp1y == <<fromNode.y * Scale + SinAside(angle, -1) * radius>>
        cp2x == <<fromNode.x * Scale + CosAside(angle, 1) * radius>>
        cp2y == <<fromNode.y * Scale + SinAside(angle, 1) * radius>>
        startX == <<fromNode.x * Scale + Cos(angle) * 30>>
        startY == <<fromNode.y * Scale + Sin(angle) * 30>>
    IN  [path |-> <<"M", startX, startY, "C", cp1x, cp1y, cp2x, cp2y, startX, startY>>,
         labelX |-> labelX,
         labelY |-> labelY,
         isLoop |-> <<TRUE>>]

\* the normal-edge branch of getEdgePath: M start L end
LinePath(fromNode, toNode) ==
    LET dx == toNode.x - fromNode.x
        dy == toNode.y - fromNode.y
        distance == Sqrt(dx * dx + dy * dy)
        startX == Plus(Whole(fromNode.x), Times(Ratio(dx, distance), 30))
        startY == Plus(Whole(fromNode.y), Times(Ratio(dy, distance), 30))
        endX == Minus(Whole(toNode.x), Times(Ratio(dx, distance), 30))
        endY == Minus(Whole(toNode.y), Times(Ratio(dy, distance), 30))
        midX == Halve(Plus(startX, endX))
        midY == Halve(Plus(startY, endY))
        perpX == Times(Ratio(-dy, distance), 15)
        perpY == Times(Ratio(dx, distance), 15)
    IN  [path |-> <<"M", startX, startY, "L", endX, endY>>,
         labelX |-> Plus(midX, perpX),
         labelY |-> Plus(midY, perpY),
         isLoop |-> <<FALSE>>]

\* getEdgePath; an absent isLoop is <<>>
getEdgePath(ns, edge) ==
    IF ~Has(ns, edge.from) \/ ~Has(ns, edge.to)
      THEN [path |-> NoText, labelX |-> Whole(0), labelY |-> Whole(0), isLoop |-> <<>>]
      ELSE IF edge.from = edge.to
             THEN LoopPath(Find(ns, edge.from), edge)
             ELSE LinePath(Find(ns, edge.from), Find(ns, edge.to))

\* everything of the editor and the provider
editor == <<nodes, edges, transient, counters, provider, history, gestures>>

\* ---- DFAEditor render: edges.map(edge => getEdgePath(edge) ...)
render ==
    /\ DFAEditorRenders
    /\ edgePaths' = [i \in DOMAIN edges |-> getEdgePath(nodes, edges[i])]
    /\ UNCHANGED <<editor, isOpen, generatedLatex, parameters>>

\* ---- the graphs that are drawn
\* at most MaxDrawnNodes nodes and MaxDrawnEdges edges
MaxDrawnNodes == 2
MaxDrawnEdges == 2
\* node positions; every distance between two of them is a whole number
DrawnPositions == {<<0, 0>>, <<100, 0>>, <<100, 75>>}
\* loopAngle of a self-loop: absent, or where a loop drag left it
LoopAngles == {NoAngle, <<0>>, <<90>>, <<180>>}
\* all sequences of at most n entries of S
SeqsUpTo(S, n) == UNION {[1 .. k -> S] : k \in 0 .. n}

\* nodes n_0, n_1, .. at the given positions
NodesAt(ps) == [i \in DOMAIN ps |-> NewNode(i - 1, ps[i][1], ps[i][2])]
DrawnNodes == {NodesAt(ps) : ps \in SeqsUpTo(DrawnPositions, MaxDrawnNodes)}

\* from, to and loopAngle of an edge: only a self-loop has a loopAngle
DrawnEnds ==
    {k \in {NodeId(i) : i \in 0 .. MaxDrawnNodes - 1}
           \X {NodeId(i) : i \in 0 .. MaxDrawnNodes - 1} \X LoopAngles :
        k[1] # k[2] => k[3] = NoAngle}
\* edges e_0, e_1, .. with the given ends
EdgesWith(ks) ==
    [i \in DOMAIN ks |->
        [NewEdge(i - 1, ks[i][1], ks[i][2]) EXCEPT !.loopAngle = ks[i][3]]]
DrawnEdges == {EdgesWith(ks) : ks \in SeqsUpTo(DrawnEnds, MaxDrawnEdges)}

\* the page has just been opened on the stored graph (ns, es), used gestures
\* of the budget being spent: the state the mount effect's load leaves
LoadedAfter(ns, es, used) ==
    /\ nodes = ns
    /\ edges = es
    /\ storage = Stored(ns, es)
    /\ provNextNodeId = Reseed(0, ns)
    /\ provNextEdgeId = Reseed(0, es)
    /\ context = TRUE
    /\ dragging = NULL
    /\ connecting = NULL
    /\ connectingPreview = NoPoint
    /\ selectedNode = NULL
    /\ selectedEdge = NULL
    /\ draggingLoopEdge = NULL
    /\ editingNode = NULL
    /\ editingEdge = NULL
    /\ tempLabel = ""
    /\ nextNodeId = 0
    /\ nextEdgeId = 0
    /\ edgePaths = <<>>
    /\ isOpen = FALSE
    /\ generatedLatex = NoText
    /\ toggleInitial = TRUE
    /\ targetMaxWidth = 12
    /\ targetMaxHeight = 8
    /\ nodeDistance = 2
    /\ shortenArrows = 1
    /\ usedNodeIds = IdSet(ns)
    /\ usedEdgeIds = IdSet(es)
    /\ gestures = used

\* the page has just been opened on the stored graph (ns, es)
Loaded(ns, es) == LoadedAfter(ns, es, 0)

InitDraw == \E ns \in DrawnNodes, es \in DrawnEdges : Loaded(ns, es)

NextDraw == render

\* the editor drawing a stored graph
SpecDraw == InitDraw /\ [][NextDraw]_vars

\* ---------------------------------------------------------------- export
\* ---- LatexExport. A text is the sequence of the strings appended to it.
RECURSIVE Flatten(_)
\* the entries of a sequence of sequences, one after the other
Flatten(ss) == IF ss = <<>> THEN <<>> ELSE Head(ss) \o Flatten(Tail(ss))

\* Math.min(...) and Math.max(...) of a non-empty set of numbers
MinOf(S) == CHOOSE m \in S : \A v \in S : m <= v
MaxOf(S) == CHOOSE m \in S : \A v \in S : m >= v

\* a scale with the quotient upside down: actual / target
ScaleForInverted(target, actual) == IF actual > 0 THEN <<actual, target>> ELSE <<1, 1>>

\* actual > 0 ? target / actual : 1, kept as the fraction <<numerator, denominator>>
ScaleFor(target, actual) == IF actual > 0 THEN <<target, actual>> ELSE <<1, 1>>
\* the larger of two fractions
MaxFraction(a, b) == IF a[1] * b[2] >= b[1] * a[2] THEN a ELSE b

\* Math.min of two fractions with positive denominators
MinFraction(a, b) == IF a[1] * b[2] <= b[1] * a[2] THEN a ELSE b

\* two decimal digits
TwoDigits(k) == IF k < 10 THEN "0" \o ToString(k) ELSE ToString(k)
\* (a / b).toFixed(2) for b > 0: "-" only for a value below zero (0 and -0 give
\* no sign), then the nearest hundredth of the magnitude, the larger one of two
\* equally near
ToFixed2(a, b) ==
    LET mag == IF a < 0 THEN -a ELSE a
        n == (200 * mag + b) \div (2 * b)
    IN  (IF a < 0 THEN "-" ELSE "") \o ToString(n \div 100) \o "." \o TwoDigits(n % 100)

\* a \node line that marks every node but the first as initial
NodeTextInitialElsewhere(node, index, minX, minY, scale, initial) ==
    LET optionsStr == "state" \o (IF index # 0 /\ initial THEN ",initial" ELSE "")
                              \o (IF node.accept THEN ",accepting" ELSE "")
        relativeX == ToFixed2((node.x - minX) * scale[1], scale[2])
        relativeY == ToFixed2((-(node.y - minY)) * scale[1], scale[2])
        positionStr == "at (" \o relativeX \o "," \o relativeY \o ")"
        contentStr == IF node.label # "" THEN "{$" \o node.label \o "$}" ELSE ""
    IN  "   \\node[" \o optionsStr \o "] (" \o node.id \o ") " \o positionStr
            \o " " \o contentStr \o ";\n"

\* the text of one \node line
NodeText(node, index, minX, minY, scale, initial) ==
    LET optionsStr == "state" \o (IF index = 0 /\ initial THEN ",initial" ELSE "")
                              \o (IF node.accept THEN ",accepting" ELSE "")
        relativeX == ToFixed2((node.x - minX) * scale[1], scale[2])
        relativeY == ToFixed2((-(node.y - minY)) * scale[1], scale[2])
        positionStr == "at (" \o relativeX \o "," \o relativeY \o ")"
        contentStr == IF node.label # "" THEN "{$" \o node.label \o "$}" ELSE ""
    IN  "   \\node[" \o optionsStr \o "] (" \o node.id \o ") " \o positionStr
            \o " " \o contentStr \o ";\n"

\* a heuristic that also swaps the label of a level edge
shouldSwapLabelOrLevel(fromNode, toNode) == toNode.y >= fromNode.y

\* a heuristic that swaps the label when the target is above the source
shouldSwapLabelAbove(fromNode, toNode) == toNode.y < fromNode.y

\* shouldSwapLabel: swap if the target is below the source
shouldSwapLabel(fromNode, toNode) == toNode.y > fromNode.y

\* an edge text whose loop style follows the angle of the loop
EdgeTextAngled(fromNode, toNode, edge) ==
    IF edge.from = edge.to
      THEN " edge [loop " \o (IF edge.loopAngle = <<90>> THEN "below" ELSE "above")
               \o "] node {" \o edge.label \o "} ()"
      ELSE " edge node" \o (IF toNode.y > fromNode.y THEN " [swap]" ELSE "")
               \o " {" \o edge.label \o "} (" \o toNode.id \o ")"

\* the text of one edge of a clause
EdgeText(fromNode, toNode, edge) ==
    IF edge.from = edge.to
      THEN " edge [loop above] node {" \o edge.label \o "} ()"
      ELSE " edge node" \o (IF shouldSwapLabel(fromNode, toNode) THEN " [swap]" ELSE "")
               \o " {" \o edge.label \o "} (" \o toNode.id \o ")"

RECURSIVE edgesBySourceNewestFirst(_)
\* a grouping that puts a new source in front of the earlier ones
edgesBySourceNewestFirst(es) ==
    IF es = <<>>
      THEN <<>>
      ELSE LET acc == edgesBySourceNewestFirst(SubSeq(es, 1, Len(es) - 1))
               edge == es[Len(es)]
           IN  IF \E k \in DOMAIN acc : acc[k].fromId = edge.from
                 THEN [k \in DOMAIN acc |->
                          IF acc[k].fromId = edge.from
                            THEN [acc[k] EXCEPT !.nodeEdges = Append(@, edge)]
                            ELSE acc[k]]
                 ELSE <<[fromId |-> edge.from, nodeEdges |-> <<edge>>]>> \o acc

RECURSIVE edgesBySource(_)
\* Object.entries of the edges.reduce(...) record: one entry per source id, in
\* the order the ids were first inserted, each with its edges in edge order
edgesBySource(es) ==
    IF es = <<>>
      THEN <<>>
      ELSE LET acc == edgesBySource(SubSeq(es, 1, Len(es) - 1))
               edge == es[Len(es)]
           IN  IF \E k \in DOMAIN acc : acc[k].fromId = edge.from
                 THEN [k \in DOMAIN acc |->
                          IF acc[k].fromId = edge.from
                            THEN [acc[k] EXCEPT !.nodeEdges = Append(@, edge)]
                            ELSE acc[k]]
                 ELSE Append(acc, [fromId |-> edge.from, nodeEdges |-> <<edge>>])

\* nodeEdges.forEach: an edge whose target is missing adds nothing
EdgeTexts(ns, fromNode, nodeEdges) ==
    Flatten([k \in DOMAIN nodeEdges |->
        IF ~Has(ns, nodeEdges[k].to)
          THEN <<>>
          ELSE <<EdgeText(fromNode, Find(ns, nodeEdges[k].to), nodeEdges[k])>>
                   \o (IF k < Len(nodeEdges) THEN <<"\n          ">> ELSE <<>>)])

\* Object.entries(edgesBySource).forEach: a source that is missing adds nothing
ClauseTexts(ns, entries) ==
    Flatten([k \in DOMAIN entries |->
        IF ~Has(ns, entries[k].fromId)
          THEN <<>>
          ELSE <<"     (" \o Find(ns, entries[k].fromId).id \o ")">>
                   \o EdgeTexts(ns, Find(ns, entries[k].fromId), entries[k].nodeEdges)
                   \o <<IF k < Len(entries) THEN "\n     " ELSE ";\n">>])

\* a placeholder put inside an empty picture
placeholderInPicture ==
    <<"\\begin{tikzpicture}\n", "% No nodes to export", "\\end{tikzpicture}">>

\* '% No nodes to export'
placeholder == <<"% No nodes to export">>

\* generateLatex: the text it hands to setGeneratedLatex
generateLatex(ns, es, initial, maxWidth, maxHeight, distance, shorten) ==
    IF Len(ns) = 0
      THEN placeholder
      ELSE LET minX == MinOf({ns[i].x : i \in DOMAIN ns})
               maxX == MaxOf({ns[i].x : i \in DOMAIN ns})
               minY == MinOf({ns[i].y : i \in DOMAIN ns})
               maxY == MaxOf({ns[i].y : i \in DOMAIN ns})
               scaleX == ScaleFor(maxWidth, maxX - minX)
               scaleY == ScaleFor(maxHeight, maxY - minY)
               scale == MinFraction(scaleX, scaleY)
           IN  <<"\\begin{tikzpicture}[shorten >=" \o ToString(shorten)
                    \o "pt,node distance=" \o ToString(distance)
                    \o "cm,on grid,auto]\n">>
               \o [i \in DOMAIN ns |-> NodeText(ns[i], i - 1, minX, minY, scale, initial)]
               \o (IF Len(es) > 0
                     THEN <<"   \\path[->]\n">> \o ClauseTexts(ns, edgesBySource(es))
                     ELSE <<>>)
               \o <<"\\end{tikzpicture}">>

\* the effect [isOpen, generateLatex]: the text is made again from what the
\* dialog holds after the event
regenerate ==
    /\ LatexExportRenders
    /\ generatedLatex' = generateLatex(nodes', edges', toggleInitial', targetMaxWidth',
                                       targetMaxHeight', nodeDistance', shortenArrows')

\* ---- Export to LaTeX button: setIsLatexModalOpen(true)
exportButton ==
    /\ ~isOpen
    /\ isOpen' = TRUE
    /\ UNCHANGED <<editor, edgePaths, parameters>>
    /\ regenerate

\* ---- onClose: setIsLatexModalOpen(false)
onClose ==
    /\ LatexExportRenders
    /\ isOpen
    /\ isOpen' = FALSE
    /\ UNCHANGED <<editor, edgePaths, parameters, generatedLatex>>

\* parseFloat(e.target.value) || fallback: 0 and NaN (here 0) give the fallback
ParsedOr(value, fallback) == IF value = 0 THEN fallback ELSE value

\* ---- the four number inputs of the dialog
setTargetMaxWidth(value) ==
    /\ isOpen
    /\ targetMaxWidth' = ParsedOr(value, 12)
    /\ UNCHANGED <<editor, edgePaths, isOpen, toggleInitial, targetMaxHeight,
                   nodeDistance, shortenArrows>>
    /\ regenerate

setTargetMaxHeight(value) ==
    /\ isOpen
    /\ targetMaxHeight' = ParsedOr(value, 8)
    /\ UNCHANGED <<editor, edgePaths, isOpen, toggleInitial, targetMaxWidth,
                   nodeDistance, shortenArrows>>
    /\ regenerate

setNodeDistance(value) ==
    /\ isOpen
    /\ nodeDistance' = ParsedOr(value, 2)
    /\ UNCHANGED <<editor, edgePaths, isOpen, toggleInitial, targetMaxWidth,
                   targetMaxHeight, shortenArrows>>
    /\ regenerate

setShortenArrows(value) ==
    /\ isOpen
    /\ shortenArrows' = ParsedOr(value, 1)
    /\ UNCHANGED <<editor, edgePaths, isOpen, toggleInitial, targetMaxWidth,
                   targetMaxHeight, nodeDistance>>
    /\ regenerate

\* ---- the graphs that are exported
\* at most MaxExportedNodes nodes and MaxExportedEdges edges
MaxExportedNodes == 2
MaxExportedEdges == 3
\* label and accept of a node, label of an edge
NodeKinds == {<<"", FALSE>>, <<"q", TRUE>>}
EdgeLabels == {"", "a"}
\* numbers typed into the inputs of the dialog
WidthInputs == {0, 6}
HeightInputs == {0, 4}
DistanceInputs == {0, 3}
ShortenInputs == {0, 2}

\* nodes n_0, n_1, .. with the given positions and kinds
NodesOf(ks) ==
    [i \in DOMAIN ks |->
        [NewNode(i - 1, ks[i][1][1], ks[i][1][2])
            EXCEPT !.label = ks[i][2][1], !.accept = ks[i][2][2]]]
ExportedNodes ==
    {NodesOf(ks) : ks \in SeqsUpTo(DrawnPositions \X NodeKinds, MaxExportedNodes)}

\* edges e_0, e_1, .. with the given ends, all with the same label
EdgesOf(ks, label) ==
    [i \in DOMAIN ks |-> [NewEdge(i - 1, ks[i][1], ks[i][2]) EXCEPT !.label = label]]
ExportedEdges ==
    {EdgesOf(ks, label) :
        ks \in SeqsUpTo({NodeId(i) : i \in 0 .. MaxExportedNodes - 1}
                            \X {NodeId(i) : i \in 0 .. MaxExportedNodes - 1},
                        MaxExportedEdges),
        label \in EdgeLabels}

InitExport == \E ns \in ExportedNodes, es \in ExportedEdges : Loaded(ns, es)

NextExport ==
    \/ exportButton
    \/ onClose
    \/ \E v \in WidthInputs : setTargetMaxWidth(v)
    \/ \E v \in HeightInputs : setTargetMaxHeight(v)
    \/ \E v \in DistanceInputs : setNodeDistance(v)
    \/ \E v \in ShortenInputs : setShortenArrows(v)

\* the export dialog on a stored graph
SpecExport == InitExport /\ [][NextExport]_vars

\* ---- the graphs whose node declarations are exported
\* at most MaxDeclaredNodes nodes, of every kind, without an edge or with a
\* self-loop on the first node
MaxDeclaredNodes == 2
DeclaredKinds == {"", "q"} \X BOOLEAN
DeclaredNodes ==
    {NodesOf(ks) : ks \in SeqsUpTo(DrawnPositions \X DeclaredKinds, MaxDeclaredNodes)}
DeclaredEdges == {<<>>, <<NewEdge(0, NodeId(0), NodeId(0))>>}

InitDeclare == \E ns \in DeclaredNodes, es \in DeclaredEdges : Loaded(ns, es)

NextDeclare ==
    \/ exportButton
    \/ onClose
    \/ \E v \in WidthInputs : setTargetMaxWidth(v)
    \/ \E v \in HeightInputs : setTargetMaxHeight(v)

\* the export dialog on a stored graph, the size of the picture being changed
SpecDeclare == InitDeclare /\ [][NextDeclare]_vars

\* ---------------------------------------------------------------- Next
NodeIds == {NodeId(k) : k \in 0 .. MaxNodes}
EdgeIds == {EdgeId(k) : k \in 0 .. MaxEdges}

Next ==
    \/ \E p \in Points : handleDoubleClick(p[1], p[2])
    \/ \E n \in NodeIds, p \in Points : handleNodeMouseDown(n, TRUE, p[1], p[2])
    \/ \E n \in NodeIds : handleNodeMouseDown(n, FALSE, 0, 0)
    \/ \E e \in EdgeIds : handleLoopEdgeMouseDown(e)
    \/ \E p \in Points : svgMouseMove(p[1], p[2])
    \/ svgMouseUp
    \/ \E b \in BOOLEAN : handleSVGClick(b)
    \/ \E n \in NodeIds : handleNodeClick(n)
    \/ \E e \in EdgeIds : handleEdgeClick(e)
    \/ \E n \in NodeIds : handleNodeDoubleClick(n)
    \/ \E e \in EdgeIds : handleEdgeDoubleClick(e)
    \/ \E n \in NodeIds : handleNodeRightClick(n)
    \/ \E t \in Labels : inputChange(t)
    \/ inputBlur
    \/ \E k \in Keys : handleKeyDown(k)

\* the editor on a provider without persistence: a session starts empty
Spec == Init /\ [][Next]_vars

\* the editor on the provider with save/load
NextLoad ==
    \/ Next
    \/ saveToLocalStorage
    \/ loadButton
    \/ mount

SpecLoad == Init /\ [][NextLoad]_vars

\* ---- the components mounted with or without a provider above them
\* no provider: there is no context value and there are no collections, the
\* dialog being asked for or not; every field has its initial value
Unprovided ==
    /\ context = FALSE
    /\ isOpen \in BOOLEAN
    /\ nodes = <<>>
    /\ edges = <<>>
    /\ dragging = NULL
    /\ connecting = NULL
    /\ connectingPreview = NoPoint
    /\ selectedNode = NULL
    /\ selectedEdge = NULL
    /\ draggingLoopEdge = NULL
    /\ editingNode = NULL
    /\ editingEdge = NULL
    /\ tempLabel = ""
    /\ nextNodeId = 0
    /\ nextEdgeId = 0
    /\ storage = NoData
    /\ provNextNodeId = 0
    /\ provNextEdgeId = 0
    /\ edgePaths = <<>>
    /\ generatedLatex = NoText
    /\ toggleInitial = TRUE
    /\ targetMaxWidth = 12
    /\ targetMaxHeight = 8
    /\ nodeDistance = 2
    /\ shortenArrows = 1
    /\ usedNodeIds = {}
    /\ usedEdgeIds = {}
    /\ gestures = 0

InitMount == Init \/ Unprovided

\* the editor and the export view, under a provider or without one
SpecMount == InitMount /\ [][Next]_vars

\* ---- a session opened on a graph stored by an earlier session
\* stored graphs: one node with a self-loop, without and with a second node
ReopenedNodes ==
    {<<NewNode(0, 0, 0)>>, <<NewNode(0, 0, 0), NewNode(1, 1, 0)>>}
ReopenedEdges == {<<>>, <<NewEdge(0, NodeId(0), NodeId(0))>>}

\* every node and every edge of the stored graph took a gesture of the budget
InitReopen ==
    \E ns \in ReopenedNodes, es \in ReopenedEdges :
        LoadedAfter(ns, es, Len(ns) + Len(es))

\* the editor on the provider with save/load, the page opened on a stored graph
SpecReopen == InitReopen /\ [][NextLoad]_vars

\* ================================================================ claims
\* no two entries of a collection share an id
UniqueIds(s) == \A i, j \in DOMAIN s : s[i].id = s[j].id => i = j

\* the largest number parsed from the ids of a non-empty collection
MaxIdNumber(s) ==
    CHOOSE m \in {ParseIdNumber(s[i].id) : i \in DOMAIN s} :
        \A i \in DOMAIN s : ParseIdNumber(s[i].id) <= m

\* C1: in every reachable state each edge's from and to is the id of a node
\* that is currently in the node collection.
C1_EdgesReferenceNodes ==
    \A i \in DOMAIN edges : Has(nodes, edges[i].from) /\ Has(nodes, edges[i].to)

C3_CountersReseededOnLoad ==
    [][(loadButton \/ mount) /\ storage # NoData =>
          /\ nodes' # <<>> =>
                /\ nextNodeId' >= MaxIdNumber(nodes') + 1
                /\ ~Has(nodes', NodeId(nextNodeId'))
          /\ edges' # <<>> =>
                /\ nextEdgeId' >= MaxIdNumber(edges') + 1
                /\ ~Has(edges', EdgeId(nextEdgeId'))]_vars

\* t is s with some entries left out: same entries, same relative order
IsOrderedSublist(t, s) ==
    \E f \in [DOMAIN t -> DOMAIN s] :
        /\ \A i, j \in DOMAIN t : i < j => f[i] < f[j]
        /\ \A i \in DOMAIN t : t[i] = s[f[i]]

\* C4: Delete with selectedNode set removes exactly that node and exactly the
\* edges whose from or to is that node, and clears selectedNode; all other
\* nodes and edges are kept as they are, in their relative order.
C4_DeleteNodeCascade ==
    [][handleKeyDown("Delete") /\ selectedNode # NULL =>
          LET sel == selectedNode
              keptEdges == {i \in DOMAIN edges :
                               edges[i].from # sel /\ edges[i].to # sel}
          IN  /\ selectedNode' = NULL
              /\ IsOrderedSublist(nodes', nodes)
              /\ IdSet(nodes') = IdSet(nodes) \ {sel}
              /\ Len(nodes') = Len(nodes) - 1
              /\ IsOrderedSublist(edges', edges)
              /\ Len(edges') = Cardinality(keptEdges)
              /\ \A i \in keptEdges : \E j \in DOMAIN edges' : edges'[j] = edges[i]
              /\ \A j \in DOMAIN edges' : edges'[j].from # sel /\ edges'[j].to # sel]_vars

\* the selected node is the source of one edge and the target of another, and
\* Delete is about to be handled
C4_Witness ==
    /\ selectedNode # NULL
    /\ \E i, j \in DOMAIN edges :
          /\ edges[i].from = selectedNode /\ edges[i].to # selectedNode
          /\ edges[j].to = selectedNode /\ edges[j].from # selectedNode
    /\ ENABLED handleKeyDown("Delete")

\* C5: Escape clears editingNode, editingEdge, connectFrom, connectPreviewPoint
\* and draftLabel and leaves the node and edge collections as they are (the
\* label of an edge under edit is not overwritten by the draft).
C5_EscapeAbandons ==
    [][handleKeyDown("Escape") =>
          /\ editingNode' = NULL
          /\ editingEdge' = NULL
          /\ connecting' = NULL
          /\ connectingPreview' = NoPoint
          /\ tempLabel' = ""
          /\ nodes' = nodes
          /\ edges' = edges]_vars

\* an edge is under edit with draft "x" over another stored label, and Escape
\* is about to be handled
C5_Witness ==
    /\ Has(edges, editingEdge)
    /\ tempLabel = "x"
    /\ Find(edges, editingEdge).label # "x"
    /\ ENABLED handleKeyDown("Escape")

\* C6: a commit (Enter during an edit, or the label input losing focus) writes
\* draftLabel into the label of the entity editingNode / editingEdge names,
\* clears the editing field and draftLabel, and changes no other label and no
\* other field of any node or edge.
C6_CommitWritesLabel ==
    [][\/ inputBlur
       \/ handleKeyDown("Enter") /\ (editingNode # NULL \/ editingEdge # NULL)
       =>
          /\ Len(nodes') = Len(nodes)
          /\ \A i \in DOMAIN nodes :
                nodes'[i] = IF nodes[i].id = editingNode
                              THEN [nodes[i] EXCEPT !.label = tempLabel]
                              ELSE nodes[i]
          /\ Len(edges') = Len(edges)
          /\ \A i \in DOMAIN edges :
                edges'[i] = IF edges[i].id = editingEdge
                              THEN [edges[i] EXCEPT !.label = tempLabel]
                              ELSE edges[i]
          /\ editingNode' = NULL
          /\ editingEdge' = NULL
          /\ tempLabel' = ""]_vars

\* a node is under edit with draft "x", another node has another label, and
\* the input is about to lose focus
C6_Witness ==
    /\ Has(nodes, editingNode)
    /\ tempLabel = "x"
    /\ Find(nodes, editingNode).label # "x"
    /\ \E i \in DOMAIN nodes : nodes[i].id # editingNode /\ nodes[i].label # "x"
    /\ ENABLED inputBlur

\* C7: a release on a node while connectFrom is set appends exactly one edge
\* from connectFrom to that node (a self-loop when they are equal) with empty
\* label and no loopAngle, clears connectFrom and connectPreviewPoint, and
\* starts editing the new edge with an empty draft.
C7_ReleaseCompletesConnection ==
    [][\A n \in NodeIds :
          handleNodeClick(n) /\ connecting # NULL =>
             /\ Len(edges') = Len(edges) + 1
             /\ SubSeq(edges', 1, Len(edges)) = edges
             /\ edges'[Len(edges')].from = connecting
             /\ edges'[Len(edges')].to = n
             /\ edges'[Len(edges')].label = ""
             /\ edges'[Len(edges')].loopAngle = NoAngle
             /\ edges'[Len(edges')].id \notin IdSet(edges)
             /\ connecting' = NULL
             /\ connectingPreview' = NoPoint
             /\ editingEdge' = edges'[Len(edges')].id
             /\ tempLabel' = ""]_vars

\* the second edge of the session has just been made by a release: it joins
\* two different nodes and is under edit (two creations and two press-release
\* pairs are six events, the first edge being a self-loop)
C7_Witness ==
    /\ gestures = 6
    /\ Len(edges) = 2
    /\ edges[1].from = edges[1].to
    /\ edges[2].from # edges[2].to
    /\ editingEdge = edges[2].id
    /\ connecting = NULL
    /\ tempLabel = ""

\* C8: in every reachable state at most one of dragTarget, connectFrom and
\* loopDragTarget is set.
C8_AtMostOneActive ==
    /\ ~(dragging # NULL /\ connecting # NULL)
    /\ ~(dragging # NULL /\ draggingLoopEdge # NULL)
    /\ ~(connecting # NULL /\ draggingLoopEdge # NULL)

\* C9: every release, on the empty surface or on a node, with or without a
\* connection in progress, leaves dragTarget cleared.
C9_ReleaseClearsDrag ==
    [][svgMouseUp \/ (\E n \in NodeIds : handleNodeClick(n)) => dragging' = NULL]_vars

\* C10: Enter with no edit active and Delete with nothing selected change
\* neither the node collection, nor the edge collection, nor any transient field.
C10_NoOpOnMalformedInput ==
    [][\/ handleKeyDown("Enter") /\ editingNode = NULL /\ editingEdge = NULL
       \/ handleKeyDown("Delete") /\ selectedNode = NULL /\ selectedEdge = NULL
       => UNCHANGED <<nodes, edges, transient>>]_vars

\* nothing is under edit and nothing is selected in a graph with an edge, a
\* node is still being dragged, and Enter and Delete are about to be handled
C10_Witness ==
    /\ editingNode = NULL /\ editingEdge = NULL
    /\ selectedNode = NULL /\ selectedEdge = NULL
    /\ nodes # <<>>
    /\ edges # <<>>
    /\ dragging # NULL
    /\ ENABLED handleKeyDown("Enter")
    /\ ENABLED handleKeyDown("Delete")

\* a pointer move reaches the svg
PointerMove == \E p \in Points : svgMouseMove(p[1], p[2])
\* a commit: Enter while an edit is active, or the label input losing focus
Commit ==
    \/ inputBlur
    \/ handleKeyDown("Enter") /\ (editingNode # NULL \/ editingEdge # NULL)

\* dragTarget names a node that is gone
StaleDragTarget == dragging # NULL /\ ~Has(nodes, dragging)
\* loopDragTarget names an edge that is gone, or an edge whose node is gone
StaleLoopDragTarget ==
    /\ draggingLoopEdge # NULL
    /\ \/ ~Has(edges, draggingLoopEdge)
       \/ ~Has(nodes, Find(edges, draggingLoopEdge).from)
StaleEditingNode == editingNode # NULL /\ ~Has(nodes, editingNode)
StaleEditingEdge == editingEdge # NULL /\ ~Has(edges, editingEdge)

\* C11: a pointer move whose dragTarget names a deleted node, a pointer move
\* whose loopDragTarget names a deleted edge (or an edge whose node is gone) and
\* a commit whose editingNode or editingEdge names a deleted entity all leave
\* the node collection and the edge collection unchanged.
C11_StaleIdsChangeNothing ==
    [][\/ PointerMove /\ (StaleDragTarget \/ StaleLoopDragTarget)
       \/ Commit /\ (StaleEditingNode \/ StaleEditingEdge)
       => nodes' = nodes /\ edges' = edges]_vars

\* C17: a creation gesture appends exactly one node at the end of the node
\* collection, at the gesture coordinates, with an empty label and accept
\* false, sets editingNode to the new node's id and draftLabel to "", and
\* leaves every existing node and every edge as it was.
C17_CreateAppendsOneNode ==
    [][\A p \in Points :
          handleDoubleClick(p[1], p[2]) =>
             /\ Len(nodes') = Len(nodes) + 1
             /\ SubSeq(nodes', 1, Len(nodes)) = nodes
             /\ nodes'[Len(nodes')].x = p[1]
             /\ nodes'[Len(nodes')].y = p[2]
             /\ nodes'[Len(nodes')].label = ""
             /\ nodes'[Len(nodes')].accept = FALSE
             /\ editingNode' = nodes'[Len(nodes')].id
             /\ tempLabel' = ""
             /\ edges' = edges]_vars

\* a graph with a node and an edge, a draft "x" typed into the edge's input,
\* and a creation gesture away from the origin is about to be handled
C17_Witness ==
    /\ nodes # <<>>
    /\ edges # <<>>
    /\ tempLabel = "x"
    /\ editingEdge # NULL
    /\ ENABLED handleDoubleClick(1, 1)

\* C18: a press on a node sets selectedNode to that node and clears
\* selectedEdge; with the modifier it sets connectFrom to the node and
\* connectPreviewPoint to the pointer position and leaves dragTarget as it was,
\* without the modifier it sets dragTarget to the node and leaves connectFrom
\* and connectPreviewPoint as they were.
C18_PressSelectsThenConnectsOrDrags ==
    [][\A n \in NodeIds :
          /\ \A p \in Points :
                handleNodeMouseDown(n, TRUE, p[1], p[2]) =>
                   /\ selectedNode' = n
                   /\ selectedEdge' = NULL
                   /\ connecting' = n
                   /\ connectingPreview' = p
                   /\ dragging' = dragging
          /\ handleNodeMouseDown(n, FALSE, 0, 0) =>
                /\ selectedNode' = n
                /\ selectedEdge' = NULL
                /\ dragging' = n
                /\ connecting' = connecting
                /\ connectingPreview' = connectingPreview]_vars

\* an edge is selected, nothing is dragged or being connected, and a press
\* with and a press without the modifier are about to be handled
C18_Witness ==
    /\ selectedEdge # NULL
    /\ dragging = NULL
    /\ connecting = NULL
    /\ connectingPreview = NoPoint
    /\ \E n \in NodeIds :
          /\ ENABLED handleNodeMouseDown(n, TRUE, 1, 1)
          /\ ENABLED handleNodeMouseDown(n, FALSE, 0, 0)

C20_SurfaceClickDeselectsAndCancels ==
    [][handleSVGClick(TRUE) =>
          /\ selectedNode' = NULL
          /\ selectedEdge' = NULL
          /\ connecting # NULL => connecting' = NULL /\ connectingPreview' = NoPoint
          /\ nodes' = nodes
          /\ edges' = edges]_vars

\* a connection is in progress from a selected node in a graph that has an
\* edge, and a click on the surface is about to be handled
C20_Witness ==
    /\ connecting # NULL
    /\ connectingPreview # NoPoint
    /\ selectedNode # NULL
    /\ edges # <<>>
    /\ ENABLED handleSVGClick(TRUE)

\* the self-loops that are drawn, the node each one is on, the angle the
\* claims give an edge (absent is -90), and the offsets of its label anchor
\* and of its start point from the node centre, in 1 / Scale
LoopsDrawn == {i \in DOMAIN edgePaths : edgePaths[i].isLoop = <<TRUE>>}
Centre(i) == Find(nodes, edges[i].from)
AngleOf(i) == IF edges[i].loopAngle = NoAngle THEN -90 ELSE edges[i].loopAngle[1]
AnchorOffset(i) ==
    <<edgePaths[i].labelX[1] - Centre(i).x * Scale,
      edgePaths[i].labelY[1] - Centre(i).y * Scale>>
StartOffset(i) ==
    <<edgePaths[i].path[2][1] - Centre(i).x * Scale,
      edgePaths[i].path[3][1] - Centre(i).y * Scale>>
\* the vector v turned by deg, a number of quarter turns, towards positive y
Turned(v, deg) ==
    CASE deg % 360 = 0 -> v
      [] deg % 360 = 90 -> <<-v[2], v[1]>>
      [] deg % 360 = 180 -> <<-v[1], -v[2]>>
      [] deg % 360 = 270 -> <<v[2], -v[1]>>

\* C15: a drawn non-self edge whose two endpoint nodes have the same position
\* has a path whose start and end are the same well-defined point (no number
\* of it is the result of a division by zero) and a well-defined label anchor.
C15_CoincidentEndpointsDrawn ==
    \A i \in DOMAIN edgePaths :
        /\ edges[i].from # edges[i].to
        /\ EndpointsExist(nodes, edges[i])
        /\ Find(nodes, edges[i].from).x = Find(nodes, edges[i].to).x
        /\ Find(nodes, edges[i].from).y = Find(nodes, edges[i].to).y
        => /\ edgePaths[i].path[2] # NaN
           /\ edgePaths[i].path[3] # NaN
           /\ edgePaths[i].path[5] = edgePaths[i].path[2]
           /\ edgePaths[i].path[6] = edgePaths[i].path[3]
           /\ edgePaths[i].labelX # NaN
           /\ edgePaths[i].labelY # NaN

\* C16: for drawn self-loops, at whatever node position, a loopAngle larger by
\* delta gives a label anchor and a start point turned by delta around the
\* node centre; the anchor is at one fixed distance and the start point at
\* distance 30 from the centre, both in the direction of loopAngle, an absent
\* loopAngle counting as -90.
C16_LoopTurnsWithAngle ==
    /\ \A i, j \in LoopsDrawn :
          /\ AnchorOffset(j) = Turned(AnchorOffset(i), AngleOf(j) - AngleOf(i))
          /\ StartOffset(j) = Turned(StartOffset(i), AngleOf(j) - AngleOf(i))
    /\ \E r \in 1 .. 2 * radius :
          \A i \in LoopsDrawn : AnchorOffset(i) = Turned(<<r * Scale, 0>>, AngleOf(i))
    /\ \A i \in LoopsDrawn : StartOffset(i) = Turned(<<30 * Scale, 0>>, AngleOf(i))

\* two loops are drawn on nodes at different positions, one without a
\* loopAngle and one with a loopAngle of 90
C16_Witness ==
    \E i, j \in LoopsDrawn :
        /\ edges[i].loopAngle = NoAngle
        /\ edges[j].loopAngle = <<90>>
        /\ Centre(i).x # Centre(j).x
        /\ Centre(i).y # Centre(j).y

\* the export text has been made from the graph and the parameters of the state
Generated == generatedLatex # NoText

\* C12: when the node collection is empty, the generated text is the
\* comment-only placeholder and nothing else, whatever the edges and the
\* parameters are.
C12_NoNodesGivesPlaceholder ==
    Generated /\ nodes = <<>> => generatedLatex = <<"% No nodes to export">>

\* a text was generated for no nodes, with edges, after the width and the
\* arrow shortening were changed
C12_Witness ==
    /\ Generated
    /\ nodes = <<>>
    /\ edges # <<>>
    /\ targetMaxWidth # 12
    /\ shortenArrows # 1

\* two plain nodes at (0,0) and (100,0), one edge without label from the first
\* to the second, the default parameters, and the text generated for them
TwoNodeSample ==
    /\ Generated
    /\ Len(nodes) = 2
    /\ <<nodes[1].x, nodes[1].y>> = <<0, 0>>
    /\ <<nodes[2].x, nodes[2].y>> = <<100, 0>>
    /\ \A i \in DOMAIN nodes : nodes[i].label = "" /\ ~nodes[i].accept
    /\ Len(edges) = 1
    /\ edges[1].from = nodes[1].id
    /\ edges[1].to = nodes[2].id
    /\ edges[1].label = ""
    /\ toggleInitial
    /\ <<targetMaxWidth, targetMaxHeight, nodeDistance, shortenArrows>> = <<12, 8, 2, 1>>
\* a state declaration without content, and the text of the sample with the
\* second node declared at the given position
Declaration(options, id, position) ==
    "   \\node[" \o options \o "] (" \o id \o ") at " \o position \o " ;\n"
TwoNodeText(second) ==
    << "\\begin{tikzpicture}[shorten >=1pt,node distance=2cm,on grid,auto]\n",
       Declaration("state,initial", nodes[1].id, "(0.00,0.00)"),
       Declaration("state", nodes[2].id, second),
       "   \\path[->]\n",
       "     (" \o nodes[1].id \o ")",
       " edge node {} (" \o nodes[2].id \o ")",
       ";\n",
       "\\end{tikzpicture}" >>

\* C13 as stated: for the two-node sample the text has exactly two state
\* declarations, the first initial, at (0.00,0.00) and (12.00,-0.00), and one
\* path clause from the first id to the second with an empty label and no swap.
C13_TwoNodeSampleAsStated ==
    TwoNodeSample => generatedLatex = TwoNodeText("(12.00,-0.00)")

\* C13 amended: for the two-node sample the text has exactly two state
\* declarations, the first initial, at (0.00,0.00) and (12.00,0.00), and one
\* path clause from the first id to the second with an empty label and no swap.
C13_TwoNodeSample ==
    TwoNodeSample => generatedLatex = TwoNodeText("(12.00,0.00)")

\* the text of the two-node sample has been generated
C13_Witness == TwoNodeSample /\ isOpen

\* the texts between clauses, and the texts of the path block without them
Separators == {"\n          ", "\n     ", ";\n"}
PathBlock ==
    LET k == CHOOSE k \in DOMAIN generatedLatex : generatedLatex[k] = "   \\path[->]\n"
    IN  SelectSeq(SubSeq(generatedLatex, k + 1, Len(generatedLatex) - 1),
                  LAMBDA s : s \notin Separators)
\* the edges in which a source that is a node appears for the first time
FirstUses ==
    SelectSeq([i \in DOMAIN edges |-> i],
              LAMBDA i : /\ Has(nodes, edges[i].from)
                         /\ \A j \in 1 .. i - 1 : edges[j].from # edges[i].from)
\* the clause of a source: its id, then its edges whose target exists, in
\* the order of the edge collection
ClauseOf(from) ==
    LET own == SelectSeq(edges, LAMBDA e : e.from = from /\ Has(nodes, e.to))
    IN  <<"     (" \o from \o ")">>
            \o [n \in DOMAIN own |->
                   EdgeText(Find(nodes, from), Find(nodes, own[n].to), own[n])]

\* C14: when there are edges, the generated text has one path clause per
\* distinct source node, the clauses in the order in which the sources first
\* appear in the edge collection and the edges of a clause in their original
\* order, every edge whose endpoints exist being in exactly one clause once.
C14_ClausesBySourceInOrder ==
    Generated /\ nodes # <<>> /\ edges # <<>> =>
        /\ \E k \in DOMAIN generatedLatex : generatedLatex[k] = "   \\path[->]\n"
        /\ PathBlock = Flatten([n \in DOMAIN FirstUses |-> ClauseOf(edges[FirstUses[n]].from)])

\* a text was generated for three edges between existing nodes whose sources
\* are the second node, the first node and the second node again
C14_Witness ==
    /\ Generated
    /\ Len(nodes) = 2
    /\ Len(edges) = 3
    /\ <<edges[1].from, edges[2].from, edges[3].from>>
           = <<nodes[2].id, nodes[1].id, nodes[2].id>>
    /\ \A i \in DOMAIN edges : Has(nodes, edges[i].to)
    /\ edges[1].to # edges[3].to

\* a release: the event reaches the svg, or a node's onMouseUp takes it
Release == svgMouseUp \/ \E n \in NodeIds : handleNodeClick(n)

\* C23: once a loop-angle drag has been started, the release that ends it
\* leaves loopDragTarget cleared wherever the pointer is released, over a node
\* included.
C23_ReleaseClearsLoopDrag ==
    [][draggingLoopEdge # NULL /\ Release => draggingLoopEdge' = NULL]_vars

\* C24: in every reachable state at most one of editingNode and editingEdge
\* is set.
C24_AtMostOneEdit == ~(editingNode # NULL /\ editingEdge # NULL)

\* C25: in every reachable state every edge with a loopAngle is a self-loop.
C25_LoopAngleOnlyOnLoops ==
    \A i \in DOMAIN edges : edges[i].loopAngle # NoAngle => edges[i].from = edges[i].to

\* C26: on every pointer move in a state where connectFrom is set,
\* connectPreviewPoint becomes the pointer position, whatever dragTarget and
\* loopDragTarget are.
C26_MoveUpdatesPreview ==
    [][\A p \in Points :
          connecting # NULL /\ svgMouseMove(p[1], p[2]) => connectingPreview' = p]_vars

\* C27: in every reachable state at most one of selectedNode and selectedEdge
\* is set.
C27_AtMostOneSelection == ~(selectedNode # NULL /\ selectedEdge # NULL)

\* an edge of the graph is selected, after the node press that made it had
\* selected a node, and a node is pressed next
C27_Witness ==
    /\ selectedEdge # NULL
    /\ Has(edges, selectedEdge)
    /\ \E n \in NodeIds : ENABLED handleNodeMouseDown(n, FALSE, 0, 0)

\* C22: without a Graph Model context neither component initializes: no
\* gesture is handled, nothing is drawn and no export text is generated.
C22_NoContextNoComponent ==
    ~context =>
        /\ ~ENABLED Next
        /\ ~ENABLED NextExport
        /\ ~ENABLED render
        /\ generatedLatex = NoText
        /\ edgePaths = <<>>

\* the components were mounted without a provider, the dialog asked for
C22_Witness == ~context /\ isOpen

\* the edge collections that agree with the edges of the state on from, to,
\* label and order, some of the edges having another id and a loopAngle
Altered(edge) == [edge EXCEPT !.id = "e_9", !.loopAngle = <<90>>]
EdgeVariants ==
    {[i \in DOMAIN edges |-> IF i \in S THEN Altered(edges[i]) ELSE edges[i]] :
        S \in SUBSET DOMAIN edges}
\* the text of a self-loop with the given label
LoopText(label) == " edge [loop above] node {" \o label \o "} ()"
\* the places of the text that hold a given piece
PlacesOf(piece) == {k \in DOMAIN generatedLatex : generatedLatex[k] = piece}

\* C21: the generated text depends on the nodes, on from, to and label of the
\* edges in order, and on the parameters only: an edge collection that differs
\* in loopAngle or ids gives the same text, and every self-loop between
\* existing nodes is in the text with the "loop above" style.
C21_TextIgnoresAnglesAndIds ==
    Generated =>
        /\ \A es \in EdgeVariants :
              generateLatex(nodes, es, toggleInitial, targetMaxWidth, targetMaxHeight,
                            nodeDistance, shortenArrows) = generatedLatex
        /\ \A label \in EdgeLabels :
              Cardinality(PlacesOf(LoopText(label)))
                  = Cardinality({i \in DOMAIN edges : /\ IsLoop(nodes, edges[i])
                                                       /\ edges[i].label = label})

\* a text was generated for a graph with a self-loop and another edge
C21_Witness ==
    /\ Generated
    /\ \E i, j \in DOMAIN edges :
          /\ IsLoop(nodes, edges[i])
          /\ EndpointsExist(nodes, edges[j])
          /\ edges[j].from # edges[j].to

\* a state declaration: options, id, position and content
Line(options, id, position, content) ==
    "   \\node[" \o options \o "] (" \o id \o ") at " \o position \o " " \o content \o ";\n"
\* the bounding box of the nodes
Left == MinOf({nodes[i].x : i \in DOMAIN nodes})
Top == MinOf({nodes[i].y : i \in DOMAIN nodes})
BoxWidth == MaxOf({nodes[i].x : i \in DOMAIN nodes}) - Left
BoxHeight == MaxOf({nodes[i].y : i \in DOMAIN nodes}) - Top
\* the factor of an axis, as a fraction: 1 for an extent of zero
AxisFactor(target, extent) == IF extent = 0 THEN <<1, 1>> ELSE <<target, extent>>
\* the smaller of the factors of the two axes
UniformScale ==
    LET sx == AxisFactor(targetMaxWidth, BoxWidth)
        sy == AxisFactor(targetMaxHeight, BoxHeight)
    IN  IF sx[1] * sy[2] <= sy[1] * sx[2] THEN sx ELSE sy
\* the position of node i under the uniform scale, y turned upwards
PositionOf(i) ==
    "(" \o ToFixed2((nodes[i].x - Left) * UniformScale[1], UniformScale[2])
        \o "," \o ToFixed2((Top - nodes[i].y) * UniformScale[1], UniformScale[2]) \o ")"
\* the options and the contents a declaration can have
OptionTexts == {"state", "state,initial", "state,accepting", "state,initial,accepting"}
ContentTexts == {""} \cup {"{$" \o nodes[i].label \o "$}" : i \in DOMAIN nodes}

\* C28: the positions of the text are scaled on both axes by the one factor
\* min(maxWidth / width, maxHeight / height) of the nodes' bounding box, an
\* axis of extent zero having the factor 1.
C28_UniformScale ==
    Generated /\ nodes # <<>> =>
        LET position == [i \in DOMAIN nodes |-> PositionOf(i)]
        IN  \A i \in DOMAIN nodes :
                generatedLatex[i + 1]
                    \in {Line(o, nodes[i].id, position[i], c) :
                            o \in OptionTexts, c \in ContentTexts}

\* a text was generated for a box without width after the height was changed,
\* and one for a box in which the width decides the scale
C28_Witness ==
    /\ Generated
    /\ Len(nodes) = 2
    /\ \/ BoxWidth = 0 /\ BoxHeight > 0 /\ targetMaxHeight # 8
       \/ BoxWidth > 0 /\ BoxHeight > 0 /\ targetMaxWidth = 6

\* the markers and the content of node i when markInitial is initial
MarkersOf(i, initial) ==
    "state" \o (IF i = 1 /\ initial THEN ",initial" ELSE "")
            \o (IF nodes[i].accept THEN ",accepting" ELSE "")
ContentOf(i) == IF nodes[i].label = "" THEN "" ELSE "{$" \o nodes[i].label \o "$}"
\* the text for the graph and the parameters of the state, markInitial given
TextWith(initial) ==
    generateLatex(nodes, edges, initial, targetMaxWidth, targetMaxHeight, nodeDistance,
                  shortenArrows)

\* C29: for a non-empty node collection the text has exactly one state
\* declaration per node, in collection order; the first node alone is marked
\* initial when markInitial is set and no node is otherwise, the nodes with
\* accept set are the ones marked accepting, and the nodes with a non-empty
\* label are the ones with content.
C29_OneDeclarationPerNode ==
    Generated /\ nodes # <<>> =>
        LET position == [i \in DOMAIN nodes |-> PositionOf(i)]
            declarations ==
                {Line(o, nodes[i].id, position[i], c) :
                    i \in DOMAIN nodes, o \in OptionTexts, c \in ContentTexts}
        IN  /\ generatedLatex = TextWith(toggleInitial)
            /\ \A initial \in BOOLEAN :
                  LET text == TextWith(initial)
                  IN  /\ \A i \in DOMAIN nodes :
                            text[i + 1] = Line(MarkersOf(i, initial), nodes[i].id,
                                               position[i], ContentOf(i))
                      /\ text[Len(nodes) + 2] \in {"   \\path[->]\n", "\\end{tikzpicture}"}
                      /\ \A k \in DOMAIN text \ (2 .. Len(nodes) + 1) :
                            text[k] \notin declarations

\* a text was generated for two nodes of which the second alone is accepting
\* and labelled
C29_Witness ==
    /\ Generated
    /\ Len(nodes) = 2
    /\ ~nodes[1].accept /\ nodes[1].label = ""
    /\ nodes[2].accept /\ nodes[2].label # ""
    /\ edges # <<>>

\* the edges of the text in the order of the path block: per first-appearing
\* source, its edges with an existing target; and the edge texts of the block
EdgesEmitted ==
    Flatten([n \in DOMAIN FirstUses |->
        SelectSeq(edges, LAMBDA e : e.from = edges[FirstUses[n]].from /\ Has(nodes, e.to))])
EdgePieces ==
    SelectSeq(PathBlock, LAMBDA s : s \notin {"     (" \o nodes[i].id \o ")" : i \in DOMAIN nodes})
\* the text of a non-self edge, with and without the swap modifier
SwapText(e) == " edge node [swap] {" \o e.label \o "} (" \o e.to \o ")"
PlainText(e) == " edge node {" \o e.label \o "} (" \o e.to \o ")"

\* C30: in the text a non-self edge has the swap modifier if and only if the
\* y of its target is strictly greater than the y of its source, and a
\* self-loop never has it.
C30_SwapIffTargetBelow ==
    Generated /\ nodes # <<>> /\ edges # <<>> =>
        /\ Len(EdgePieces) = Len(EdgesEmitted)
        /\ \A k \in DOMAIN EdgesEmitted :
              LET e == EdgesEmitted[k]
              IN  IF e.from = e.to
                    THEN EdgePieces[k] = LoopText(e.label)
                    ELSE IF Find(nodes, e.to).y > Find(nodes, e.from).y
                           THEN EdgePieces[k] = SwapText(e)
                           ELSE EdgePieces[k] = PlainText(e)

\* a text was generated for edges to a lower node, to a higher node, and from
\* a node to itself
C30_Witness ==
    /\ Generated
    /\ \E i, j, k \in DOMAIN edges :
          /\ EndpointsExist(nodes, edges[i])
          /\ EndpointsExist(nodes, edges[j])
          /\ Find(nodes, edges[i].to).y > Find(nodes, edges[i].from).y
          /\ Find(nodes, edges[j].to).y < Find(nodes, edges[j].from).y
          /\ IsLoop(nodes, edges[k])

\* the offsets of the two control points of loop i from the node centre, and
\* how far an offset reaches in the direction of the loop's angle
ControlOffsets(i) ==
    {<<edgePaths[i].path[5][1] - Centre(i).x * Scale,
       edgePaths[i].path[6][1] - Centre(i).y * Scale>>,
     <<edgePaths[i].path[7][1] - Centre(i).x * Scale,
       edgePaths[i].path[8][1] - Centre(i).y * Scale>>}
Along(v, i) ==
    LET u == Turned(<<1, 0>>, AngleOf(i)) IN v[1] * u[1] + v[2] * u[2]

\* C31: for every drawn self-loop the label anchor lies further from the node
\* centre, in the direction of loopAngle, than both control points of the curve.
C31_AnchorBeyondControlPoints ==
    \A i \in LoopsDrawn :
        \A c \in ControlOffsets(i) : Along(AnchorOffset(i), i) > Along(c, i)

\* C32: in every reachable state connecting, dragging and editingNode, when
\* set, name a node of the node collection, and draggingLoopEdge and
\* editingEdge, when set, name an edge of the edge collection.
C32_GestureTargetsExist ==
    /\ connecting # NULL => Has(nodes, connecting)
    /\ dragging # NULL => Has(nodes, dragging)
    /\ editingNode # NULL => Has(nodes, editingNode)
    /\ draggingLoopEdge # NULL => Has(edges, draggingLoopEdge)
    /\ editingEdge # NULL => Has(edges, editingEdge)

\* C33: after every sequence of editing gestures selectedNode, when set, names
\* a node of the node collection and selectedEdge, when set, names an edge of
\* the edge collection.
C33_SelectionExists ==
    /\ selectedNode # NULL => Has(nodes, selectedNode)
    /\ selectedEdge # NULL => Has(edges, selectedEdge)

\* C37: in every reachable state a non-empty tempLabel implies that editingNode
\* or editingEdge is set.
C37_DraftOnlyWhileEditing ==
    tempLabel # "" => editingNode # NULL \/ editingEdge # NULL

\* field f names no entry of the collection s
Stale(s, f) == f # NULL /\ ~Has(s, f)
\* a field that is stale after a step held the same id before the step, and
\* either was stale already or the step is a Delete keystroke
StaleByDelete(s, f, t, g) ==
    Stale(t, g) => g = f /\ (Stale(s, f) \/ handleKeyDown("Delete"))

\* C32 (as the code has it): a gesture sets connecting, dragging, editingNode,
\* draggingLoopEdge and editingEdge only to an entity of its collection, and a
\* set field stops naming one only through a Delete keystroke, which removes
\* the selected entity and clears nothing but the selection.
C32_StaleOnlyByDelete ==
    [][/\ StaleByDelete(nodes, connecting, nodes', connecting')
       /\ StaleByDelete(nodes, dragging, nodes', dragging')
       /\ StaleByDelete(nodes, editingNode, nodes', editingNode')
       /\ StaleByDelete(edges, draggingLoopEdge, edges', draggingLoopEdge')
       /\ StaleByDelete(edges, editingEdge, edges', editingEdge')]_vars

\* a Delete has left an edit naming an edge that went with its node
C32_Witness ==
    /\ Stale(edges, editingEdge)
    /\ editingEdge \in usedEdgeIds
    /\ selectedNode = NULL

\* a Delete has removed a node together with an edge and cleared the selection
C33_Witness ==
    /\ selectedNode = NULL
    /\ selectedEdge = NULL
    /\ Len(nodes) < Cardinality(usedNodeIds)
    /\ Len(edges) < Cardinality(usedEdgeIds)

\* a non-empty draft has been committed to a node, and no draft is left
C37_Witness ==
    /\ tempLabel = ""
    /\ editingNode = NULL
    /\ editingEdge = NULL
    /\ \E i \in DOMAIN nodes : nodes[i].label # ""

\* the gestures that may change the collections
CreateNode == \E p \in Points : handleDoubleClick(p[1], p[2])
DeleteKey == handleKeyDown("Delete")
CompleteConnection == connecting # NULL /\ \E n \in NodeIds : handleNodeClick(n)
\* t holds an entry that s has not; s holds an entry that t has not
Gained(s, t) == Len(t) > Len(s) \/ \E j \in DOMAIN t : ~Has(s, t[j].id)
Lost(s, t) == Len(t) < Len(s) \/ \E i \in DOMAIN s : ~Has(t, s[i].id)

\* C36: only the create-node gesture adds a node and only Delete removes one;
\* only connection completion adds an edge and only Delete removes edges; every
\* other gesture leaves the sequences of node ids and edge ids as they are, and
\* no gesture changes the from or to of an edge that stays.
C36_OnlyNamedGesturesChangeCollections ==
    [][/\ Gained(nodes, nodes') => CreateNode
       /\ Lost(nodes, nodes') => DeleteKey
       /\ Gained(edges, edges') => CompleteConnection
       /\ Lost(edges, edges') => DeleteKey
       /\ ~(CreateNode \/ DeleteKey) => Ids(nodes') = Ids(nodes)
       /\ ~(CompleteConnection \/ DeleteKey) => Ids(edges') = Ids(edges)
       /\ IsOrderedSublist(Ids(nodes), Ids(nodes')) \/ IsOrderedSublist(Ids(nodes'), Ids(nodes))
       /\ IsOrderedSublist(Ids(edges), Ids(edges')) \/ IsOrderedSublist(Ids(edges'), Ids(edges))
       /\ \A i \in DOMAIN edges, j \in DOMAIN edges' :
              edges[i].id = edges'[j].id
                  => edges[i].from = edges'[j].from /\ edges[i].to = edges'[j].to]_vars

\* a node and an edge have been added and a node has been deleted beside them
C36_Witness ==
    /\ Len(nodes) >= 1
    /\ Len(edges) >= 1
    /\ Len(nodes) < Cardinality(usedNodeIds)

\* how many pieces of the generated text are the text x
Pieces(x) == Cardinality({k \in DOMAIN generatedLatex : generatedLatex[k] = x})

\* what the editing gestures keep true of the edges: the target of every edge
\* is a node (the source may be a node that was deleted while connecting)
TargetsExist == \A i \in DOMAIN edges : Has(nodes, edges[i].to)

\* C34: whenever the edge collection is not empty the generated text has
\* exactly one path block, closed by exactly one ';' that comes just before
\* the end-of-picture line, for every graph the editor can reach.
C34_OnePathBlockClosedOnce ==
    Generated /\ edges # <<>> /\ TargetsExist =>
        /\ Pieces("   \\path[->]\n") = 1
        /\ Pieces(";\n") = 1
        /\ Len(generatedLatex) >= 2
        /\ generatedLatex[Len(generatedLatex) - 1] = ";\n"
        /\ generatedLatex[Len(generatedLatex)] = "\\end{tikzpicture}"

\* the number that ToFixed2(a, b) prints, in hundredths
Hundredths(a, b) ==
    LET mag == IF a < 0 THEN -a ELSE a
        n == (200 * mag + b) \div (2 * b)
    IN  IF a < 0 THEN -n ELSE n
\* the scale generateLatex applies to the nodes of the state
ScaleUsed ==
    MinFraction(ScaleFor(targetMaxWidth, BoxWidth), ScaleFor(targetMaxHeight, BoxHeight))

====
